---- MODULE Spec2Model ----
(***************************************************************************)
(* Nondeterministic Turing machine interpreter (interpreter.py).           *)
(*                                                                         *)
(* The model follows Machine.run statement by statement.  Python lists     *)
(* are objects: a MachineState holds a reference to its tape list, so the  *)
(* model keeps a heap of list objects and MachineState records hold heap   *)
(* references.  `t + [BLANK]` allocates a new list, `t[i] = x` stores in   *)
(* place, `t.copy()` allocates a new list with the same elements.          *)
(***************************************************************************)
EXTENDS Integers, Sequences, FiniteSets, TLC

(***************************************************************************)
(* Bounds of the model.                                                    *)
(***************************************************************************)
MaxTransitions == 2
MaxTapeLen == 1
MaxSteps == 2
MaxRuns == 2
MaxLines == 2

(***************************************************************************)
(* Program constants, interpreter.py lines 12-18.                          *)
(***************************************************************************)
BLANK == "0"
STATE_INIT == "start"
STATE_ACCEPT == "accept"
STATE_REJECT == "reject"
DIRECTION_LEFT == "L"
DIRECTION_RIGHT == "R"
DIRECTION_STAY == "S"

(***************************************************************************)
(* The values the inputs are drawn from.                                   *)
(***************************************************************************)
Letters == {BLANK, "1"}
SourceStates == {STATE_INIT}
TargetStates == {STATE_INIT, STATE_ACCEPT, STATE_REJECT}
Directions == {DIRECTION_LEFT, DIRECTION_RIGHT, DIRECTION_STAY}

\* dataclass Transition
Transition ==
    [state_current : SourceStates, letter_current : Letters,
     state_target : TargetStates, letter_to_write : Letters,
     direction : Directions]

\* dataclass Move
Move(letter_to_write, direction, state_target) ==
    [letter_to_write |-> letter_to_write, direction |-> direction,
     state_target |-> state_target]

\* dataclass Position
Position(state, letter) == [state |-> state, letter |-> letter]

SeqsUpTo(S, n) == UNION {[1..k -> S] : k \in 0..n}

TransitionLists == SeqsUpTo(Transition, MaxTransitions)
TapeStrings == SeqsUpTo(Letters, MaxTapeLen)
Budgets == 0..MaxSteps

(***************************************************************************)
(* MachineDefinition                                                       *)
(***************************************************************************)
AddTransition_overwriting(d, t) ==
    (t.state_current :>
        ((t.letter_current :>
            <<Move(t.letter_to_write, t.direction, t.state_target)>>)
         @@ (IF t.state_current \in DOMAIN d THEN d[t.state_current] ELSE <<>>)))
    @@ d

\* One iteration of the loop of _parse_transitions: the nested dict d gets
\* the keys it lacks and the move is appended to the list of its pair.
AddTransition(d, t) ==
    LET d1 == IF t.state_current \in DOMAIN d
              THEN d
              ELSE d @@ (t.state_current :> <<>>)
        row == d1[t.state_current]
        row1 == IF t.letter_current \in DOMAIN row
                THEN row
                ELSE row @@ (t.letter_current :> <<>>)
        row2 == [row1 EXCEPT ![t.letter_current] =
                    Append(@, Move(t.letter_to_write, t.direction, t.state_target))]
    IN  [d1 EXCEPT ![t.state_current] = row2]

RECURSIVE ParseFrom(_, _, _)
ParseFrom(d, ts, i) ==
    IF i > Len(ts) THEN d ELSE ParseFrom(AddTransition(d, ts[i]), ts, i + 1)

\* MachineDefinition._parse_transitions: {State: {Letter: [Move]}}
MachineDefinition(ts) == ParseFrom(<<>>, ts, 1)

evaluate_moves_first_only(d, p) ==
    IF p.state \in DOMAIN d /\ p.letter \in DOMAIN d[p.state]
    THEN [none |-> FALSE, list |-> <<d[p.state][p.letter][1]>>]
    ELSE [none |-> TRUE, list |-> <<>>]

\* MachineDefinition.evaluate_moves: the list of the pair, None on KeyError.
evaluate_moves(d, p) ==
    IF p.state \in DOMAIN d /\ p.letter \in DOMAIN d[p.state]
    THEN [none |-> FALSE, list |-> d[p.state][p.letter]]
    ELSE [none |-> TRUE, list |-> <<>>]

(***************************************************************************)
(* MachineState: [tape |-> reference of the list, head, state].            *)
(***************************************************************************)
MachineState(tape, head, state) == [tape |-> tape, head |-> head, state |-> state]

\* "".join(tape)
RECURSIVE join(_)
join(t) == IF t = <<>> THEN "" ELSE Head(t) \o join(Tail(t))

\* A tape without its trailing BLANK cells.
RECURSIVE Strip(_)
Strip(t) ==
    IF t # <<>> /\ t[Len(t)] = BLANK THEN Strip(SubSeq(t, 1, Len(t) - 1)) ELSE t

hash_stripping_blanks(h, m) == <<join(Strip(h[m.tape])), m.state, m.head>>

hash_without_head(h, m) == <<join(h[m.tape]), m.state, 0>>

hash_without_state(h, m) == <<join(h[m.tape]), "", m.head>>

\* MachineState.__hash__: the hash of the tuple (joined tape, state, head).
\* Python's hash is modelled as injective on these tuples.
hash(h, m) == <<join(h[m.tape]), m.state, m.head>>

copy_sharing_tape(h, m) == [heap |-> h, m |-> MachineState(m.tape, m.head, m.state)]

\* MachineState.copy: a new list object with the same elements.
copy(h, m) ==
    [heap |-> Append(h, h[m.tape]),
     m |-> MachineState(Len(h) + 1, m.head, m.state)]

position_not_blank(h, m) ==
    IF m.head >= Len(h[m.tape])
    THEN Position(m.state, "1")
    ELSE Position(m.state, h[m.tape][m.head + 1])

\* MachineState.position
position(h, m) ==
    IF m.head >= Len(h[m.tape])
    THEN Position(m.state, BLANK)
    ELSE Position(m.state, h[m.tape][m.head + 1])

move_head_unbounded(head, direction) ==
    IF direction = DIRECTION_LEFT
    THEN head - 1
    ELSE IF direction = DIRECTION_RIGHT
         THEN head + 1
         ELSE head

\* The head after the move, lines 93-101 (before the tape is extended).
move_head(head, direction) ==
    IF direction = DIRECTION_LEFT
    THEN (IF head > 0 THEN head - 1 ELSE head)
    ELSE IF direction = DIRECTION_RIGHT
         THEN head + 1
         ELSE head

\* Variants of do_move: without the extension of lines 88-89 (materialize),
\* without that of lines 98-99 (extend), or appending the written letter
\* instead of BLANK at line 99 (blank_fill).
do_move_variant(h, m, move, materialize, extend, blank_fill) ==
    LET grow1 == materialize /\ m.head >= Len(h[m.tape])
        h1 == IF grow1 THEN Append(h, Append(h[m.tape], BLANK)) ELSE h
        t1 == IF grow1 THEN Len(h1) ELSE m.tape
        raised == m.head >= Len(h1[t1]) \/ m.head < 0 - Len(h1[t1])
        h2 == IF raised
              THEN h1
              ELSE [h1 EXCEPT ![t1] = [@ EXCEPT ![m.head + 1] = move.letter_to_write]]
        head2 == move_head(m.head, move.direction)
        grow2 == extend /\ move.direction = DIRECTION_RIGHT /\ head2 >= Len(h2[t1])
        fill == IF blank_fill THEN BLANK ELSE move.letter_to_write
        h3 == IF grow2 THEN Append(h2, Append(h2[t1], fill)) ELSE h2
        t3 == IF grow2 THEN Len(h3) ELSE t1
    IN  [heap |-> IF raised THEN h1 ELSE h3,
         m |-> IF raised
               THEN MachineState(t1, m.head, move.state_target)
               ELSE MachineState(t3, head2, move.state_target),
         raised |-> raised]

do_move_no_materialize(h, m, move) == do_move_variant(h, m, move, FALSE, TRUE, TRUE)

do_move_no_extend(h, m, move) == do_move_variant(h, m, move, TRUE, FALSE, TRUE)

do_move_extend_with_written(h, m, move) == do_move_variant(h, m, move, TRUE, TRUE, FALSE)

\* MachineState.do_move on heap h.  raised is TRUE when the store of line 90
\* addresses a cell outside the list (IndexError).
do_move(h, m, move) ==
    LET grow1 == m.head >= Len(h[m.tape])
        h1 == IF grow1 THEN Append(h, Append(h[m.tape], BLANK)) ELSE h
        t1 == IF grow1 THEN Len(h1) ELSE m.tape
        raised == m.head >= Len(h1[t1]) \/ m.head < 0 - Len(h1[t1])
        h2 == IF raised
              THEN h1
              ELSE [h1 EXCEPT ![t1] = [@ EXCEPT ![m.head + 1] = move.letter_to_write]]
        head2 == move_head(m.head, move.direction)
        grow2 == move.direction = DIRECTION_RIGHT /\ head2 >= Len(h2[t1])
        h3 == IF grow2 THEN Append(h2, Append(h2[t1], BLANK)) ELSE h2
        t3 == IF grow2 THEN Len(h3) ELSE t1
    IN  [heap |-> IF raised THEN h1 ELSE h3,
         m |-> IF raised
               THEN MachineState(t1, m.head, move.state_target)
               ELSE MachineState(t3, head2, move.state_target),
         raised |-> raised]

(***************************************************************************)
(* Machine.run                                                             *)
(***************************************************************************)
\* len([m for m in new_machines if m.state() == s])
RECURSIVE count_state(_, _)
count_state(ms, s) ==
    IF ms = <<>> THEN 0
    ELSE (IF Head(ms).state = s THEN 1 ELSE 0) + count_state(Tail(ms), s)

loop_break_on_accept(a, r) == a # 0

loop_break_on_reject(a, r) == r # 0

\* Line 132: the round produced a terminal state.
loop_break(a, r) == a # 0 \/ r # 0

verdict_accept_wins(a, r) == IF a > 0 THEN "YES" ELSE "NO"

\* Lines 138-140.
verdict(a, r) == IF a > 0 /\ r = 0 THEN "YES" ELSE "NO"

NoMachine == MachineState(0, 0, "")
NoPosition == Position("", "")

VARIABLES
    definition,      \* MachineDefinition._definition of Machine._definition
    states_visited,  \* Machine._states_visited
    steps, tape_str, \* the arguments of run
    heap,            \* the list objects created by the run, by reference
    tape,            \* local tape of run: reference of list(tape_str)
    machines, new_machines, step_i,
    accepts, rejects,
    counted,         \* TRUE once the locals accepts and rejects are bound
    machine_i,       \* index in machines of the loop variable machine
    move_i,          \* index in moves of the loop variable move; 0: not in the loop
    pos, moves, new_machine,
    pc,              \* "idle", "for", "done", "raised"
    result,          \* what run returned, or the exception it raised
    history,         \* the calls of run that ended: <<steps, tape_str, result>>
    lines,           \* f.readlines() of parse_transitions, each line a list of characters
    line_i,          \* index in lines of the loop variable line
    parsed,          \* local transitions of parse_transitions, the list it returns
    ret              \* the value returned by a call of evaluate_moves on its own

vars == <<definition, states_visited, steps, tape_str, heap, tape,
          machines, new_machines, step_i, accepts, rejects, counted,
          machine_i, move_i, pos, moves, new_machine, pc, result, history,
          lines, line_i, parsed, ret>>

args == <<steps, tape_str>>
file_vars == <<lines, line_i, parsed, ret>>
loop_vars == <<machine_i, move_i, pos, moves, new_machine>>

NoReturn == [none |-> FALSE, list |-> <<>>]

\* __main__ lines 165-170: the transitions are parsed, the definition is
\* built from them and Machine.__init__ has set an empty visited set.  The
\* file and the list parsed from it are not kept from here on.
NotRun ==
    /\ states_visited = {}
    /\ steps = 0
    /\ tape_str = <<>>
    /\ heap = <<>>
    /\ tape = 0
    /\ machines = <<>>
    /\ new_machines = <<>>
    /\ step_i = 0
    /\ accepts = 0
    /\ rejects = 0
    /\ counted = FALSE
    /\ machine_i = 0
    /\ move_i = 0
    /\ pos = NoPosition
    /\ moves = <<>>
    /\ new_machine = NoMachine
    /\ pc = "idle"
    /\ result = "none"
    /\ history = <<>>

InitFrom(lists) ==
    /\ \E ts \in lists : definition = MachineDefinition(ts)
    /\ lines = <<>>
    /\ line_i = 0
    /\ parsed = <<>>
    /\ ret = NoReturn
    /\ NotRun

Init == InitFrom(TransitionLists)

\* Lines 138-140 with the locals as they are when the loop is left: reading
\* accepts before any round has bound it raises UnboundLocalError.
returned(c, a, r) == IF c THEN verdict(a, r) ELSE "UnboundLocalError"

\* The end of the call: the value returned or the exception raised.
Leave(n, s, c, a, r) ==
    /\ result' = returned(c, a, r)
    /\ pc' = IF c THEN "done" ELSE "raised"
    /\ history' = Append(history, <<n, s, returned(c, a, r)>>)

\* Lines 113-117: entry of run(n, s) and the first test of the loop.
Enter(n, s) ==
    /\ steps' = n
    /\ tape_str' = s
    /\ heap' = <<s>>
    /\ tape' = 1
    /\ machines' = <<MachineState(1, 0, STATE_INIT)>>
    /\ new_machines' = <<>>
    /\ step_i' = 0
    /\ accepts' = 0
    /\ rejects' = 0
    /\ counted' = FALSE
    /\ move_i' = 0
    /\ pos' = NoPosition
    /\ moves' = <<>>
    /\ new_machine' = NoMachine
    /\ IF 0 < n
       THEN /\ machine_i' = 1
            /\ pc' = "for"
            /\ result' = "none"
            /\ UNCHANGED history
       ELSE /\ machine_i' = 0
            /\ Leave(n, s, FALSE, 0, 0)
    /\ UNCHANGED <<definition, states_visited, file_vars>>

\* __main__ lines 167-171: the one call of run on the new Machine.
Main ==
    /\ pc = "idle"
    /\ \E n \in Budgets, s \in TapeStrings : Enter(n, s)

\* A further call of run on the same Machine object.
RunAgain ==
    /\ pc = "done"
    /\ Len(history) < MaxRuns
    /\ \E n \in Budgets, s \in TapeStrings : Enter(n, s)

\* Lines 118-122: the next machine of the frontier, its position and moves.
ForMachine ==
    /\ pc = "for"
    /\ move_i = 0
    /\ machine_i <= Len(machines)
    /\ LET p == position(heap, machines[machine_i])
           e == evaluate_moves(definition, p)
       IN  /\ pos' = p
           /\ moves' = e.list
           /\ IF e.none \/ Len(e.list) = 0
              THEN machine_i' = machine_i + 1 /\ move_i' = 0
              ELSE machine_i' = machine_i /\ move_i' = 1
    /\ UNCHANGED <<definition, states_visited, args, heap, tape, machines,
                   new_machines, step_i, accepts, rejects, counted,
                   new_machine, pc, result, history, file_vars>>

\* Lines 123-129: one move of the machine.
ForMove ==
    /\ pc = "for"
    /\ move_i >= 1
    /\ LET c == copy(heap, machines[machine_i])
           d == do_move(c.heap, c.m, moves[move_i])
           seen == hash(d.heap, d.m) \in states_visited
           last == move_i = Len(moves)
       IN  /\ heap' = d.heap
           /\ new_machine' = d.m
           /\ IF d.raised
              THEN /\ pc' = "raised"
                   /\ result' = "IndexError"
                   /\ history' = Append(history, <<steps, tape_str, "IndexError">>)
                   /\ UNCHANGED <<states_visited, new_machines, machine_i, move_i>>
              ELSE /\ states_visited' =
                          IF seen THEN states_visited
                          ELSE states_visited \cup {hash(d.heap, d.m)}
                   /\ new_machines' =
                          IF seen THEN new_machines ELSE Append(new_machines, d.m)
                   /\ machine_i' = IF last THEN machine_i + 1 ELSE machine_i
                   /\ move_i' = IF last THEN 0 ELSE move_i + 1
                   /\ UNCHANGED <<pc, result, history>>
    /\ UNCHANGED <<definition, args, tape, machines, step_i, accepts, rejects,
                   counted, pos, moves, file_vars>>

\* Lines 130-140 and 116-117: the end of the round, then either the next
\* round or the end of the loop and the return.
Count ==
    /\ pc = "for"
    /\ move_i = 0
    /\ machine_i > Len(machines)
    /\ LET a == count_state(new_machines, STATE_ACCEPT)
           r == count_state(new_machines, STATE_REJECT)
           brk == loop_break(a, r)
           ms == IF brk THEN machines ELSE new_machines
           i == IF brk THEN step_i ELSE step_i + 1
           out == brk \/ Len(ms) = 0 \/ ~(i < steps)
       IN  /\ accepts' = a
           /\ rejects' = r
           /\ counted' = TRUE
           /\ machines' = ms
           /\ step_i' = i
           /\ IF out
              THEN /\ Leave(steps, tape_str, TRUE, a, r)
                   /\ UNCHANGED <<new_machines, machine_i>>
              ELSE /\ new_machines' = <<>>
                   /\ machine_i' = 1
                   /\ UNCHANGED <<pc, result, history>>
    /\ UNCHANGED <<definition, states_visited, args, heap, tape,
                   move_i, pos, moves, new_machine, file_vars>>

Next == Main \/ ForMachine \/ ForMove \/ Count

Spec == Init /\ [][Next]_vars

NextReuse == Next \/ RunAgain

SpecReuse == Init /\ [][NextReuse]_vars

(***************************************************************************)
(* The machine as the verdict contract reads it: configurations are values *)
(* (materialized tape, head, state), a layer is the set of configurations  *)
(* the branches are in after k steps, and nothing is pruned.               *)
(***************************************************************************)
Ended == pc \in {"done", "raised"}

RefConfig(t, h, q) == [tape |-> t, head |-> h, state |-> q]

RefRead(c) == IF c.head < Len(c.tape) THEN c.tape[c.head + 1] ELSE BLANK

RefLookup(q, l) ==
    IF q \in DOMAIN definition /\ l \in DOMAIN definition[q]
    THEN {definition[q][l][i] : i \in 1..Len(definition[q][l])}
    ELSE {}

RefApply(c, mv) ==
    LET t1 == IF c.head >= Len(c.tape)
              THEN c.tape \o [i \in 1..(c.head + 1 - Len(c.tape)) |-> BLANK]
              ELSE c.tape
        t2 == [t1 EXCEPT ![c.head + 1] = mv.letter_to_write]
        h2 == IF mv.direction = DIRECTION_LEFT
              THEN (IF c.head = 0 THEN 0 ELSE c.head - 1)
              ELSE IF mv.direction = DIRECTION_RIGHT THEN c.head + 1 ELSE c.head
        t3 == IF h2 >= Len(t2) THEN Append(t2, BLANK) ELSE t2
    IN  RefConfig(t3, h2, mv.state_target)

RefSuccessors(C) ==
    UNION {{RefApply(c, mv) : mv \in RefLookup(c.state, RefRead(c))} : c \in C}

RECURSIVE RefLayer(_)
RefLayer(k) ==
    IF k = 0
    THEN {RefConfig(tape_str, 0, STATE_INIT)}
    ELSE RefSuccessors(RefLayer(k - 1))

RefHas(C, q) == \E c \in C : c.state = q
RefTerminal(C) == RefHas(C, STATE_ACCEPT) \/ RefHas(C, STATE_REJECT)

\* Round k is the first that produces ACCEPT or REJECT.
RefFirstTerminal(k) ==
    /\ RefTerminal(RefLayer(k))
    /\ \A j \in 1..(k - 1) : ~RefTerminal(RefLayer(j))

\* Some branch reaches ACCEPT at a step within the budget at which no branch
\* reaches REJECT.
RefYes ==
    \E k \in 1..steps :
        /\ RefFirstTerminal(k)
        /\ RefHas(RefLayer(k), STATE_ACCEPT)
        /\ ~RefHas(RefLayer(k), STATE_REJECT)

(***************************************************************************)
(* C1.  Verdict contract of Machine.run: for every table, tape and budget, *)
(* run returns YES if and only if some branch reaches ACCEPT at a step     *)
(* within the budget at which no branch reaches REJECT, and returns NO in  *)
(* every other case.                                                       *)
(***************************************************************************)
C1_VerdictContract ==
    Ended => result = (IF RefYes THEN "YES" ELSE "NO")

\* The same contract for the budgets of at least one round.
VerdictContractFromOneRound ==
    (Ended /\ steps >= 1) => result = (IF RefYes THEN "YES" ELSE "NO")

(***************************************************************************)
(* C2.  Reject wins ties: when the configurations produced in one round    *)
(* hold at least one in state ACCEPT and at least one in state REJECT, run *)
(* returns NO.                                                             *)
(***************************************************************************)
TieProduced ==
    /\ \E i \in 1..Len(new_machines) : new_machines[i].state = STATE_ACCEPT
    /\ \E i \in 1..Len(new_machines) : new_machines[i].state = STATE_REJECT

C2_RejectWinsTies ==
    /\ (Ended /\ TieProduced) => result = "NO"
    /\ (pc = "for" /\ TieProduced) => result # "YES"

C2_Witness == pc = "done" /\ TieProduced /\ result = "NO"

(***************************************************************************)
(* C3.  Totality: for every table, tape and budget >= 0, run returns one   *)
(* of YES and NO; no input makes it raise.                                 *)
(***************************************************************************)
C3_Totality ==
    /\ pc # "raised"
    /\ Ended => result \in {"YES", "NO"}

(***************************************************************************)
(* C4.  The visited set is scoped to one run: it is empty at the start of  *)
(* every call of run, so calls of run on the same Machine with the same    *)
(* budget and tape return the same verdict every time.                     *)
(***************************************************************************)
\* The call has been entered and no machine has been looked at yet.
Entered == pc = "for" /\ step_i = 0 /\ pos = NoPosition

C4_VisitedEmptyAtCall == Entered => states_visited = {}

C4_SameVerdictEveryCall ==
    \A i, j \in 1..Len(history) :
        (history[i][1] = history[j][1] /\ history[i][2] = history[j][2])
            => history[i][3] = history[j][3]

(***************************************************************************)
(* C5.  Deduplication never changes the verdict: a single run with the     *)
(* visited-set pruning returns what the same engine returns with pruning   *)
(* disabled, every successor kept.                                         *)
(***************************************************************************)
\* Lines 123-129 without the test of line 126.
RECURSIVE KeepAllMoves(_, _, _, _, _)
KeepAllMoves(h, m, mvs, i, out) ==
    IF i > Len(mvs)
    THEN [heap |-> h, out |-> out]
    ELSE LET c == copy(h, m)
             d == do_move(c.heap, c.m, mvs[i])
         IN  KeepAllMoves(d.heap, m, mvs, i + 1, Append(out, d.m))

\* Lines 118-129 without the test of line 126.
RECURSIVE KeepAllRound(_, _, _, _)
KeepAllRound(h, ms, i, out) ==
    IF i > Len(ms)
    THEN [heap |-> h, out |-> out]
    ELSE LET e == evaluate_moves(definition, position(h, ms[i]))
             r == KeepAllMoves(h, ms[i], e.list, 1, out)
         IN  KeepAllRound(r.heap, ms, i + 1, r.out)

\* Lines 116-140 without the test of line 126.
RECURSIVE KeepAllLoop(_, _, _, _, _, _)
KeepAllLoop(h, ms, i, c, a, r) ==
    IF ~(i < steps)
    THEN returned(c, a, r)
    ELSE LET new == KeepAllRound(h, ms, 1, <<>>)
             a2 == count_state(new.out, STATE_ACCEPT)
             r2 == count_state(new.out, STATE_REJECT)
         IN  IF a2 # 0 \/ r2 # 0 \/ Len(new.out) = 0
             THEN returned(TRUE, a2, r2)
             ELSE KeepAllLoop(new.heap, new.out, i + 1, TRUE, a2, r2)

\* run(steps, tape_str) without the test of line 126.
KeepAllRun ==
    KeepAllLoop(<<tape_str>>, <<MachineState(1, 0, STATE_INIT)>>, 0, FALSE, 0, 0)

C5_DedupKeepsVerdict == Ended => result = KeepAllRun

\* The run ended with YES and the last successor it produced was pruned.
C5_Witness ==
    /\ pc = "done"
    /\ result = "YES"
    /\ new_machine # NoMachine
    /\ \A i \in 1..Len(new_machines) : new_machines[i] # new_machine

(***************************************************************************)
(* C6.  The step budget bounds the exploration: run performs at most       *)
(* `steps` rounds; an ACCEPT first produced in round k >= 1, with no       *)
(* REJECT in round k and nothing terminal before, yields YES exactly when  *)
(* k <= steps; and when `steps` rounds complete without ACCEPT or REJECT   *)
(* the verdict is NO.                                                      *)
(***************************************************************************)
C6_StepBudget ==
    /\ pc = "for" => step_i < steps
    /\ Ended => step_i <= steps
    /\ \A k \in 1..(MaxSteps + 1) :
          (/\ Ended
           /\ RefFirstTerminal(k)
           /\ RefHas(RefLayer(k), STATE_ACCEPT)
           /\ ~RefHas(RefLayer(k), STATE_REJECT))
              => (result = "YES" <=> k <= steps)
    /\ (Ended /\ \A k \in 1..steps : ~RefTerminal(RefLayer(k)))
          => result = "NO"

\* The same for the budgets of at least one round.
StepBudgetFromOneRound == steps >= 1 => C6_StepBudget

(***************************************************************************)
(* C7.  Branch extinction gives NO: with no transition registered for      *)
(* (INIT, symbol under the head of the initial tape) the first expansion   *)
(* produces no successor and the verdict is NO, for every tape and budget; *)
(* whenever a round produces an empty next frontier the run stops with NO. *)
(***************************************************************************)
NoMoveAtInit ==
    RefLookup(STATE_INIT, RefRead(RefConfig(tape_str, 0, STATE_INIT))) = {}

C7_ExtinctionGivesNo ==
    /\ (pc = "for" /\ step_i = 0 /\ NoMoveAtInit) => new_machines = <<>>
    /\ (Ended /\ NoMoveAtInit) => result = "NO"
    /\ (Ended /\ counted /\ Len(new_machines) = 0) => result = "NO"
    /\ (pc = "for" /\ step_i >= 1) => Len(machines) > 0

\* The same for the budgets of at least one round.
ExtinctionFromOneRound == steps >= 1 => C7_ExtinctionGivesNo

(***************************************************************************)
(* C8.  Reading past the materialized tape yields BLANK: position returns  *)
(* the symbol at head when head < len(tape) and BLANK when head >=         *)
(* len(tape); so the machine whose only transition is                      *)
(* (INIT, BLANK, ACCEPT, BLANK, S), run on the empty tape with a budget of *)
(* at least 1, returns YES.                                                *)
(***************************************************************************)
\* pos is the position of a machine of the frontier being expanded.
PosTaken == pc = "for" /\ (move_i >= 1 \/ machine_i >= 2)
PosMachine == machines[IF move_i >= 1 THEN machine_i ELSE machine_i - 1]

BlankAcceptor ==
    MachineDefinition(<<[state_current |-> STATE_INIT, letter_current |-> BLANK,
                         state_target |-> STATE_ACCEPT, letter_to_write |-> BLANK,
                         direction |-> DIRECTION_STAY]>>)

C8_ReadPastTapeIsBlank ==
    /\ PosTaken =>
          /\ pos.state = PosMachine.state
          /\ PosMachine.head < Len(heap[PosMachine.tape])
                => pos.letter = heap[PosMachine.tape][PosMachine.head + 1]
          /\ PosMachine.head >= Len(heap[PosMachine.tape])
                => pos.letter = BLANK
    /\ (Ended /\ definition = BlankAcceptor /\ tape_str = <<>> /\ steps >= 1)
          => result = "YES"

C8_Witness ==
    /\ pc = "done"
    /\ definition = BlankAcceptor
    /\ tape_str = <<>>
    /\ steps >= 1
    /\ pos = Position(STATE_INIT, BLANK)
    /\ result = "YES"

(***************************************************************************)
(* C9.  Branch isolation: producing a successor (copy, then do_move)       *)
(* leaves the tape, head and state of the parent unchanged, and the write  *)
(* is not visible in the tape of any other configuration: the parent, the  *)
(* siblings produced before it, the initial configuration.                 *)
(***************************************************************************)
ProducesSuccessor == pc = "for" /\ move_i >= 1

OthersUntouched ==
    /\ machines' = machines
    /\ \A i \in 1..Len(machines) :
          heap'[machines[i].tape] = heap[machines[i].tape]
    /\ \A j \in 1..Len(new_machines) :
          /\ new_machines'[j] = new_machines[j]
          /\ heap'[new_machines[j].tape] = heap[new_machines[j].tape]
    /\ heap'[tape] = heap[tape]
    /\ \A j \in 1..Len(new_machines') :
          /\ \A i \in 1..Len(machines) : new_machines'[j].tape # machines[i].tape
          /\ \A k \in 1..Len(new_machines') :
                j # k => new_machines'[j].tape # new_machines'[k].tape

C9_BranchIsolation == [][ProducesSuccessor => OthersUntouched]_vars

\* In the first round a second successor has been produced, the first one
\* with a letter written over a cell of the initial tape.
C9_Witness ==
    /\ pc = "for"
    /\ step_i = 0
    /\ Len(heap[tape]) >= 1
    /\ Len(new_machines) >= 2
    /\ heap[new_machines[1].tape][1] # heap[tape][1]
    /\ heap[tape] = tape_str

(***************************************************************************)
(* C10.  Left-bounded tape: a LEFT move applied to a configuration with    *)
(* head = 0 leaves head at 0, and the head of every configuration is >= 0. *)
(***************************************************************************)
HeadsNonNegative ==
    /\ \A i \in 1..Len(machines) : machines[i].head >= 0
    /\ \A i \in 1..Len(new_machines) : new_machines[i].head >= 0
    /\ new_machine.head >= 0
    /\ \A v \in states_visited : v[3] >= 0

LeftAtZero ==
    (/\ ProducesSuccessor
     /\ moves[move_i].direction = DIRECTION_LEFT
     /\ machines[machine_i].head = 0)
        => new_machine'.head = 0

C10_LeftBounded == []HeadsNonNegative /\ [][LeftAtZero]_vars

\* A LEFT move has just been applied to the initial configuration.
C10_Witness ==
    /\ pc = "for"
    /\ step_i = 0
    /\ Len(moves) >= 1
    /\ (move_i = 0 \/ move_i >= 2)
    /\ moves[IF move_i = 0 THEN Len(moves) ELSE move_i - 1].direction = DIRECTION_LEFT
    /\ new_machine # NoMachine
    /\ new_machine.head = 0

(***************************************************************************)
(* The move that has just been applied: after a step of the loop of lines  *)
(* 123-129 the local new_machine is the successor of MovedParent by        *)
(* MovedMove.                                                              *)
(***************************************************************************)
JustMoved ==
    /\ pc = "for"
    /\ Len(moves) >= 1
    /\ (move_i >= 2 \/ (move_i = 0 /\ machine_i >= 2))

MovedParent == machines[IF move_i = 0 THEN machine_i - 1 ELSE machine_i]
MovedMove == moves[IF move_i = 0 THEN Len(moves) ELSE move_i - 1]
ParentTape == heap[MovedParent.tape]
ChildTape == heap[new_machine.tape]

(***************************************************************************)
(* C11.  A RIGHT move at the materialized tape end extends the tape by     *)
(* exactly one BLANK cell, never more: for every reachable configuration,  *)
(* the initial configuration on an empty tape included, one RIGHT move     *)
(* increases the tape length by at most one cell.                          *)
(***************************************************************************)
C11_RightGrowsAtMostOne ==
    (JustMoved /\ MovedMove.direction = DIRECTION_RIGHT)
        => Len(ChildTape) <= Len(ParentTape) + 1

\* As amended: with the head on the last materialized cell the tape grows
\* by exactly one BLANK cell, with the head before it the length is kept;
\* with the head past the end, which is the initial configuration on the
\* empty tape, the cell written is materialized first and the tape grows by
\* two cells.
C11_RightExtension ==
    (JustMoved /\ MovedMove.direction = DIRECTION_RIGHT) =>
        /\ MovedParent.head + 1 < Len(ParentTape)
              => Len(ChildTape) = Len(ParentTape)
        /\ MovedParent.head + 1 = Len(ParentTape)
              => /\ Len(ChildTape) = Len(ParentTape) + 1
                 /\ ChildTape[Len(ChildTape)] = BLANK
        /\ MovedParent.head >= Len(ParentTape)
              => /\ ParentTape = <<>>
                 /\ MovedParent.head = 0
                 /\ step_i = 0
                 /\ ChildTape = <<MovedMove.letter_to_write, BLANK>>

C11_Witness ==
    /\ JustMoved
    /\ MovedMove.direction = DIRECTION_RIGHT
    /\ ParentTape = <<>>
    /\ Len(ChildTape) = 2

\* A RIGHT move with the head on the last cell of a tape of one cell.
C11_WitnessLastCell ==
    /\ JustMoved
    /\ MovedMove.direction = DIRECTION_RIGHT
    /\ Len(ParentTape) = 1
    /\ Len(ChildTape) = 2

(***************************************************************************)
(* run as a function of the definition, the visited set at the call, the   *)
(* budget and the tape: the loops of lines 116-140 folded with the         *)
(* operators of the model.                                                 *)
(***************************************************************************)
RECURSIVE MovesOn(_, _, _, _, _, _)
MovesOn(h, v, m, mvs, i, out) ==
    IF i > Len(mvs)
    THEN [heap |-> h, visited |-> v, out |-> out, raised |-> FALSE]
    ELSE LET c == copy(h, m)
             d == do_move(c.heap, c.m, mvs[i])
             k == hash(d.heap, d.m)
         IN  IF d.raised
             THEN [heap |-> d.heap, visited |-> v, out |-> out, raised |-> TRUE]
             ELSE IF k \in v
                  THEN MovesOn(d.heap, v, m, mvs, i + 1, out)
                  ELSE MovesOn(d.heap, v \cup {k}, m, mvs, i + 1, Append(out, d.m))

RECURSIVE RoundOn(_, _, _, _, _, _)
RoundOn(def, h, v, ms, i, out) ==
    IF i > Len(ms)
    THEN [heap |-> h, visited |-> v, out |-> out, raised |-> FALSE]
    ELSE LET e == evaluate_moves(def, position(h, ms[i]))
             r == MovesOn(h, v, ms[i], e.list, 1, out)
         IN  IF r.raised THEN r ELSE RoundOn(def, r.heap, r.visited, ms, i + 1, r.out)

RECURSIVE LoopOn(_, _, _, _, _, _, _, _, _)
LoopOn(def, h, v, ms, i, n, c, a, r) ==
    IF ~(i < n)
    THEN returned(c, a, r)
    ELSE LET new == RoundOn(def, h, v, ms, 1, <<>>)
             a2 == count_state(new.out, STATE_ACCEPT)
             r2 == count_state(new.out, STATE_REJECT)
         IN  IF new.raised
             THEN "IndexError"
             ELSE IF loop_break(a2, r2) \/ Len(new.out) = 0
                  THEN returned(TRUE, a2, r2)
                  ELSE LoopOn(def, new.heap, new.visited, new.out, i + 1, n, TRUE, a2, r2)

RunOn(def, v, n, s) ==
    LoopOn(def, <<s>>, v, <<MachineState(1, 0, STATE_INIT)>>, 0, n, FALSE, 0, 0)

(***************************************************************************)
(* C12.  Order-independence of the table: for every multiset of            *)
(* transitions, tape and budget, run returns the same verdict for every    *)
(* ordering of the transition list given to MachineDefinition.             *)
(***************************************************************************)
\* The (state, letter) pairs registered in the definition.
PairsOf(def) == UNION {{<<q, l>> : l \in DOMAIN def[q]} : q \in DOMAIN def}

TransitionsOfPair(def, qp) ==
    [i \in 1..Len(def[qp[1]][qp[2]]) |->
        [state_current |-> qp[1], letter_current |-> qp[2],
         state_target |-> def[qp[1]][qp[2]][i].state_target,
         letter_to_write |-> def[qp[1]][qp[2]][i].letter_to_write,
         direction |-> def[qp[1]][qp[2]][i].direction]]

\* A transition list the definition is built from: the transitions of the
\* pairs, pair after pair.  The list given to MachineDefinition is one of
\* its orderings.
RECURSIVE ListOfPairs(_, _)
ListOfPairs(def, P) ==
    IF P = {}
    THEN <<>>
    ELSE LET qp == CHOOSE x \in P : TRUE
         IN  TransitionsOfPair(def, qp) \o ListOfPairs(def, P \ {qp})

Orderings(ts) ==
    {[i \in 1..Len(ts) |-> ts[f[i]]] : f \in Permutations(1..Len(ts))}

\* The definitions built from the orderings of the transition list.
Reordered ==
    {MachineDefinition(ts) :
        ts \in Orderings(ListOfPairs(definition, PairsOf(definition)))}

C12_OrderIndependent ==
    Ended => \A def \in Reordered : RunOn(def, {}, steps, tape_str) = result

\* The tables whose transitions are all registered for the pair
\* (INIT, BLANK), where every ordering of two different transitions builds
\* another definition.
OnePairTransition == {t \in Transition : t.letter_current = BLANK}

InitOrder == InitFrom(SeqsUpTo(OnePairTransition, MaxTransitions))

SpecOrder == InitOrder /\ [][Next]_vars

\* The run ended with YES on a table with two different moves for one pair,
\* so that two orderings give two different definitions.
C12_Witness ==
    /\ pc = "done"
    /\ result = "YES"
    /\ \E qp \in PairsOf(definition) :
          /\ Len(definition[qp[1]][qp[2]]) = 2
          /\ definition[qp[1]][qp[2]][1] # definition[qp[1]][qp[2]][2]
          /\ definition[qp[1]][qp[2]][1].state_target = STATE_INIT
          /\ definition[qp[1]][qp[2]][2].state_target = STATE_ACCEPT

(***************************************************************************)
(* MachineDefinition on its own: a definition is built from a transition   *)
(* list, which is kept in parsed, and evaluate_moves is called on it.      *)
(***************************************************************************)
\* The positions looked up: pairs of the table and pairs it cannot hold.
LookupPositions ==
    {Position(q, l) : q \in {STATE_INIT, STATE_ACCEPT}, l \in Letters}

\* MachineDefinition(transitions), lines 43-53.
InitLookup ==
    /\ parsed \in TransitionLists
    /\ definition = MachineDefinition(parsed)
    /\ lines = <<>>
    /\ line_i = 0
    /\ ret = NoReturn
    /\ NotRun

\* definition.evaluate_moves(pos), lines 55-59.
Lookup ==
    /\ \E p \in LookupPositions :
          /\ pos' = p
          /\ ret' = evaluate_moves(definition, p)
    /\ UNCHANGED <<definition, states_visited, steps, tape_str, heap, tape,
                   machines, new_machines, step_i, accepts, rejects, counted,
                   machine_i, move_i, moves, new_machine, pc, result, history,
                   lines, line_i, parsed>>

NextLookup == Lookup

SpecLookup == InitLookup /\ [][NextLookup]_vars

(***************************************************************************)
(* C13  Transition table lookup.                                           *)
(***************************************************************************)
LookedUp == pos # NoPosition

\* The moves of the transitions of ts registered for the pair p, in the
\* order of ts.
MovesOfPair(ts, p) ==
    LET sel == SelectSeq(ts, LAMBDA t : /\ t.state_current = p.state
                                        /\ t.letter_current = p.letter)
    IN  [i \in 1..Len(sel) |->
            Move(sel[i].letter_to_write, sel[i].direction, sel[i].state_target)]

C13_WitnessNone == LookedUp /\ ret.none /\ parsed # <<>>

(***************************************************************************)
(* parse_transitions and __main__: the program from the transition file.   *)
(* A line is the sequence of its characters.                               *)
(***************************************************************************)
\* str.replace(c, ""): the line without the occurrences of c.
replace(line, c) == SelectSeq(line, LAMBDA x : x # c)

\* str.split(" "): the fields between single spaces, empty fields kept.
RECURSIVE split(_, _, _)
split(line, i, field) ==
    IF i > Len(line)
    THEN <<join(field)>>
    ELSE IF line[i] = " "
         THEN <<join(field)>> \o split(line, i + 1, <<>>)
         ELSE split(line, i + 1, Append(field, line[i]))

NoTransition ==
    [state_current |-> "", letter_current |-> "", state_target |-> "",
     letter_to_write |-> "", direction |-> ""]

\* Lines 148-153 for one line; strict is the arity check of Transition(*f),
\* which raises TypeError unless there are exactly five fields.
parse_line_variant(raw, strict) ==
    LET line == replace(raw, "\n")
        f == split(line, 1, <<>>)
    IN  IF Len(replace(line, " ")) = 0
        THEN [kind |-> "continue", t |-> NoTransition]
        ELSE IF Len(line) >= 2 /\ SubSeq(line, 1, 2) = <<"/", "/">>
        THEN [kind |-> "continue", t |-> NoTransition]
        ELSE IF Len(f) = 5
        THEN [kind |-> "append",
              t |-> [state_current |-> f[1], letter_current |-> f[2],
                     state_target |-> f[3], letter_to_write |-> f[4],
                     direction |-> f[5]]]
        ELSE IF strict
        THEN [kind |-> "TypeError", t |-> NoTransition]
        ELSE [kind |-> "continue", t |-> NoTransition]

parse_line_lenient(raw) == parse_line_variant(raw, FALSE)

parse_line(raw) == parse_line_variant(raw, TRUE)

\* The lines a transition file is made of, as readlines gives them.
FileLines ==
    { <<"\n">>,
      <<" ", " ", "\n">>,
      <<"/", "/", " ", "a", " ", "b", "\n">>,
      <<"s", "t", "a", "r", "t", " ", "0", " ",
        "a", "c", "c", "e", "p", "t", " ", "0", " ", "S", "\n">>,
      <<"s", "t", "a", "r", "t", " ", "0", " ",
        "s", "t", "a", "r", "t", " ", "1", " ", "R">>,
      <<"s", "t", "a", "r", "t", " ", "0", " ",
        "a", "c", "c", "e", "p", "t", "\n">>,
      <<"s", "t", "a", "r", "t", " ", "0", " ",
        "a", "c", "c", "e", "p", "t", " ", "0", " ", "S", " ", "\n">>,
      <<" ", "/", "/", "c", "\n">> }

Files == SeqsUpTo(FileLines, MaxLines)

\* Before MachineDefinition(transitions) of line 166 has been evaluated.
NoDefinition == [unbound |-> TRUE]

run_vars ==
    <<states_visited, steps, tape_str, heap, tape, machines, new_machines,
      step_i, accepts, rejects, counted, machine_i, move_i, pos, moves,
      new_machine>>

\* __main__ line 165: parse_transitions is entered with the file opened.
InitParse ==
    /\ lines \in Files
    /\ line_i = 1
    /\ parsed = <<>>
    /\ ret = NoReturn
    /\ definition = NoDefinition
    /\ states_visited = {}
    /\ steps = 0
    /\ tape_str = <<>>
    /\ heap = <<>>
    /\ tape = 0
    /\ machines = <<>>
    /\ new_machines = <<>>
    /\ step_i = 0
    /\ accepts = 0
    /\ rejects = 0
    /\ counted = FALSE
    /\ machine_i = 0
    /\ move_i = 0
    /\ pos = NoPosition
    /\ moves = <<>>
    /\ new_machine = NoMachine
    /\ pc = "parse"
    /\ result = "none"
    /\ history = <<>>

\* Lines 147-153: one iteration of the loop over the lines.  The TypeError
\* of Transition(*fields) is not caught (line 154 catches
\* FileNotFoundError only) and ends the program.
ParseLine ==
    /\ pc = "parse"
    /\ line_i <= Len(lines)
    /\ LET p == parse_line(lines[line_i])
       IN  /\ parsed' = IF p.kind = "append" THEN Append(parsed, p.t) ELSE parsed
           /\ pc' = IF p.kind = "TypeError" THEN "raised" ELSE "parse"
           /\ result' = IF p.kind = "TypeError" THEN "TypeError" ELSE result
    /\ line_i' = line_i + 1
    /\ UNCHANGED <<definition, run_vars, history, lines, ret>>

\* Lines 157 and 166: parse_transitions returns and the definition is built.
Build ==
    /\ pc = "parse"
    /\ line_i > Len(lines)
    /\ definition' = MachineDefinition(parsed)
    /\ pc' = "idle"
    /\ UNCHANGED <<run_vars, result, history, file_vars>>

NextParse == ParseLine \/ Build \/ Main \/ ForMachine \/ ForMove \/ Count

SpecParse == InitParse /\ [][NextParse]_vars

(***************************************************************************)
(* C14  Parsing failure is fatal and precedes simulation.                  *)
(***************************************************************************)
Spaces(line) == Cardinality({i \in 1..Len(line) : line[i] = " "})

IsBlank(line) == \A i \in 1..Len(line) : line[i] \in {" ", "\n"}

IsComment(line) == Len(line) >= 2 /\ line[1] = "/" /\ line[2] = "/"

\* A non-blank, non-comment line that has not exactly five fields.
Malformed(line) == ~IsBlank(line) /\ ~IsComment(line) /\ Spaces(line) # 4

HasMalformed == \E i \in 1..Len(lines) : Malformed(lines[i])

\* C14: with a malformed line in the file the definition is never built,
\* run is never entered and no verdict is returned; the program is parsing
\* or has been ended by the TypeError.
C14_MalformedIsFatal ==
    HasMalformed =>
        /\ definition = NoDefinition
        /\ machines = <<>>
        /\ history = <<>>
        /\ result \in {"none", "TypeError"}
        /\ pc \in {"parse", "raised"}

\* The program ended by a malformed line that follows a well-formed one.
C14_Witness ==
    /\ pc = "raised"
    /\ result = "TypeError"
    /\ Len(parsed) >= 1
    /\ HasMalformed
    /\ definition = NoDefinition

\* A well-formed file runs to a verdict.
C14_WitnessRuns == pc = "done" /\ parsed # <<>> /\ result = "YES"

(***************************************************************************)
(* C15  Reject stops the run: once a round has produced a configuration in *)
(* state REJECT, no further round is executed and run returns NO, whatever *)
(* budget remains and whatever non-terminal branches the round produced;   *)
(* a run whose first terminal round holds a REJECT returns NO.             *)
(***************************************************************************)
RejectProduced ==
    \E i \in 1..Len(new_machines) : new_machines[i].state = STATE_REJECT

RefRejectWithinBudget ==
    \E k \in 1..steps :
        RefFirstTerminal(k) /\ RefHas(RefLayer(k), STATE_REJECT)

C15_RejectStopsRun ==
    /\ RejectProduced =>
          /\ step_i < steps
          /\ pc = "for" \/ (pc = "done" /\ result = "NO")
    /\ \A i \in 1..Len(machines) : machines[i].state # STATE_REJECT
    /\ (Ended /\ RefRejectWithinBudget) => result = "NO"

\* The run stopped by a REJECT in its first round, with a live
\* non-terminal branch produced by that round and budget left.
C15_Witness ==
    /\ pc = "done"
    /\ result = "NO"
    /\ RejectProduced
    /\ accepts = 0
    /\ \E i \in 1..Len(new_machines) : new_machines[i].state = STATE_INIT
    /\ step_i + 1 < steps

(***************************************************************************)
(* Tables that also register transitions from ACCEPT and from REJECT.      *)
(***************************************************************************)
TerminalTransition ==
    [state_current : TargetStates, letter_current : Letters,
     state_target : TargetStates, letter_to_write : {"1"},
     direction : {DIRECTION_STAY}]

InitTerminal == InitFrom(SeqsUpTo(TerminalTransition, MaxTransitions))

SpecTerminal == InitTerminal /\ [][Next]_vars

(***************************************************************************)
(* C16  ACCEPT and REJECT are terminal: no configuration in state ACCEPT   *)
(* or REJECT is a member of the frontier being expanded, and no position   *)
(* looked up in the definition has one of these states, so the transitions *)
(* registered from them never fire.                                        *)
(***************************************************************************)
TerminalStates == {STATE_ACCEPT, STATE_REJECT}

C16_TerminalNeverExpanded ==
    /\ \A i \in 1..Len(machines) : machines[i].state \notin TerminalStates
    /\ pos.state \notin TerminalStates

\* A run that produced an ACCEPT configuration for whose position the
\* table registers a transition.
C16_Witness ==
    /\ pc = "done"
    /\ STATE_ACCEPT \in DOMAIN definition
    /\ \E i \in 1..Len(new_machines) :
          /\ new_machines[i].state = STATE_ACCEPT
          /\ ~evaluate_moves(definition, position(heap, new_machines[i])).none

(***************************************************************************)
(* C17  First-seen-only pruning: a configuration is appended to the next   *)
(* frontier only when its identity (materialized tape, head, state) is not *)
(* in the visited-set, and it is then added to it, so no identity is       *)
(* appended twice, in one round or across rounds; every member of every    *)
(* frontier after the initial one is in the visited-set, and the           *)
(* visited-set only grows.                                                 *)
(***************************************************************************)
Identity(h, m) == <<join(h[m.tape]), m.state, m.head>>

Distinct(ms) ==
    \A i, j \in 1..Len(ms) :
        i # j => Identity(heap, ms[i]) # Identity(heap, ms[j])

FrontiersVisited ==
    /\ \A j \in 1..Len(new_machines) :
          Identity(heap, new_machines[j]) \in states_visited
    /\ Distinct(new_machines)
    /\ step_i >= 1 =>
          /\ \A i \in 1..Len(machines) :
                Identity(heap, machines[i]) \in states_visited
          /\ Distinct(machines)
          /\ pc = "for" =>
                \A i \in 1..Len(machines), j \in 1..Len(new_machines) :
                    Identity(heap, machines[i]) # Identity(heap, new_machines[j])

Appended == Len(new_machines') = Len(new_machines) + 1

FirstSeenOnly ==
    /\ states_visited \subseteq states_visited'
    /\ Appended =>
          /\ new_machines'[Len(new_machines')] = new_machine'
          /\ Identity(heap', new_machine') \notin states_visited
          /\ Identity(heap', new_machine') \in states_visited'
    /\ (ProducesSuccessor /\ pc' = "for") =>
          (Appended <=> Identity(heap', new_machine') \notin states_visited)

C17_FirstSeenOnly == []FrontiersVisited /\ [][FirstSeenOnly]_vars

\* In a later round a move has produced a configuration seen before, and
\* it has not been appended.
C17_Witness ==
    /\ JustMoved
    /\ step_i >= 1
    /\ Len(new_machines) >= 1
    /\ \A j \in 1..Len(new_machines) : new_machines[j].tape # new_machine.tape

(***************************************************************************)
(* C18  Trailing blanks are not normalized for deduplication: a successor  *)
(* whose materialized tape differs from the tape of a configuration of the *)
(* frontiers, with the same head and state, only by trailing BLANK cells,  *)
(* is treated as distinct from it: unless its own identity has been seen,  *)
(* it is appended to the next frontier.                                    *)
(***************************************************************************)
\* m differs from the successor produced by this step only by trailing
\* BLANK cells of the tape.
TwinOfSuccessor(m) ==
    /\ m.head = new_machine'.head
    /\ m.state = new_machine'.state
    /\ heap[m.tape] # heap'[new_machine'.tape]
    /\ Strip(heap[m.tape]) = Strip(heap'[new_machine'.tape])

SuccessorHasTwin ==
    \/ \E i \in 1..Len(machines) : TwinOfSuccessor(machines[i])
    \/ \E j \in 1..Len(new_machines) : TwinOfSuccessor(new_machines[j])

TwinIsKept ==
    (/\ ProducesSuccessor
     /\ pc' = "for"
     /\ SuccessorHasTwin
     /\ Identity(heap', new_machine') \notin states_visited)
        => /\ Appended
           /\ new_machines'[Len(new_machines')] = new_machine'

C18_TrailingBlanksDistinct == [][TwinIsKept]_vars

\* The successor just appended differs from a member of the frontier
\* being expanded only by trailing BLANK cells.
C18_Witness ==
    /\ JustMoved
    /\ Len(new_machines) >= 1
    /\ new_machines[Len(new_machines)] = new_machine
    /\ \E i \in 1..Len(machines) :
          /\ machines[i].head = new_machine.head
          /\ machines[i].state = new_machine.state
          /\ heap[machines[i].tape] # ChildTape
          /\ Strip(heap[machines[i].tape]) = Strip(ChildTape)
          /\ Identity(heap, machines[i]) \in states_visited

(***************************************************************************)
(* C19  Head stays within the materialized tape: the head of the initial   *)
(* configuration is at most the length of its tape, the head of every      *)
(* configuration produced by do_move is at least 0 and below the length    *)
(* of its tape, so one appended cell suffices before the write and the     *)
(* write never raises IndexError.                                          *)
(***************************************************************************)
HeadInside(m) == 0 <= m.head /\ m.head < Len(heap[m.tape])

C19_HeadWithinTape ==
    /\ \A i \in 1..Len(machines) :
          IF step_i = 0
          THEN machines[i].head <= Len(heap[machines[i].tape])
          ELSE HeadInside(machines[i])
    /\ \A j \in 1..Len(new_machines) : HeadInside(new_machines[j])
    /\ JustMoved => HeadInside(new_machine)
    /\ result # "IndexError"

\* The first move on the empty tape: head = len = 0 before it, and the
\* head inside the tape after it.
C19_Witness ==
    /\ JustMoved
    /\ step_i = 0
    /\ ParentTape = <<>>
    /\ MovedParent.head = 0
    /\ HeadInside(new_machine)

(***************************************************************************)
(* C20  Frame of a move: do_move sets the cell at the pre-move head to the *)
(* letter of the move; every other cell of the parent keeps its letter,    *)
(* every other newly materialized cell is BLANK, and the tape of the       *)
(* successor is never shorter than the tape of its parent.                 *)
(***************************************************************************)
C20_MoveFrame ==
    JustMoved =>
        /\ Len(ChildTape) >= Len(ParentTape)
        /\ Len(ChildTape) >= MovedParent.head + 1
        /\ ChildTape[MovedParent.head + 1] = MovedMove.letter_to_write
        /\ \A i \in 1..Len(ChildTape) :
              i # MovedParent.head + 1 =>
                  ChildTape[i] = IF i <= Len(ParentTape) THEN ParentTape[i]
                                 ELSE BLANK

\* A RIGHT move from the last cell that overwrites it with another letter.
C20_Witness ==
    /\ JustMoved
    /\ Len(ParentTape) >= 1
    /\ Len(ChildTape) > Len(ParentTape)
    /\ MovedMove.letter_to_write # ParentTape[MovedParent.head + 1]
    /\ MovedMove.letter_to_write # BLANK

====
